---- MODULE Spec2Model ----
(***************************************************************************)
(* Transfer-chain transaction processor (src/processor/handlers.js).       *)
(*                                                                         *)
(* The ledger is a key-value store from addresses to byte strings.  One    *)
(* request (signer, action, asset, owner) is handled by JSONHandler.apply, *)
(* which dispatches to one of five rules.  A rule issues one state.get,    *)
(* validates, and either throws or issues one state.set.  apply returns    *)
(* at the get and again at the set, so the steps of several requests       *)
(* interleave: a request takes one step when its get is answered and one   *)
(* when its set is committed.                                              *)
(*                                                                         *)
(* Byte strings are modelled by what JSON.stringify(obj, sortedKeys)       *)
(* produces: the sequence of <<key, value>> pairs of the object in sorted  *)
(* key order, without the properties whose value is undefined.  Buffer(0)  *)
(* and an address never written are the empty sequence.                    *)
(***************************************************************************)
EXTENDS Integers, Sequences, FiniteSets, TLC

\* ------------------------------------------------------------------------
\* Bounds and input sets
\* ------------------------------------------------------------------------

\* Longest sequence of requests explored.
MaxRequests == 4

\* Asset names and authenticated signer identities the requests draw from.
Assets == {"widget", "deed"}
Signers == {"alice", "bob", "regulator1"}

\* JavaScript's undefined, for a payload without an owner and for a decoded
\* record without the property read.
Undefined == "undefined"

\* How the store reports an address that holds nothing in a get: the key is
\* left out of the entries (entries[address] is undefined) or it is there
\* with a zero-length buffer.  The rules test for both.
MissingAs == {"omitted", "zero-length"}

\* ------------------------------------------------------------------------
\* Encoding helpers and constants
\* ------------------------------------------------------------------------

\* sha512(key) in hex cut to `length` characters: an opaque digest that is
\* different for different keys and different lengths.
getAddress(key, length) == <<"sha512", key, length>>

FAMILY == "transfer-chain"
PREFIX == getAddress(FAMILY, 6)

getAssetAddress(name) == <<PREFIX, "00", getAddress(name, 62)>>
getTransferAddress(asset) == <<PREFIX, "10", getAddress(asset, 62)>>
getTransferAcknAddress(asset) == <<PREFIX, "11", getAddress(asset, 62)>>
getTransferApproveAddress(asset) == <<PREFIX, "12", getAddress(asset, 62)>>
getRegulatorAddress(asset) == <<PREFIX, "20", getAddress(asset, 62)>>
getParticipantAddress(asset) == <<PREFIX, "21", getAddress(asset, 62)>>

\* Every address a request over Assets and Signers can name: the asset and
\* transfer records are keyed by asset name, the role records by identity.
Addresses ==
    UNION { { getAssetAddress(a), getTransferAddress(a), getTransferAcknAddress(a),
              getTransferApproveAddress(a) } : a \in Assets }
    \cup UNION { { getRegulatorAddress(s), getParticipantAddress(s) } : s \in Signers }

\* The property names the rules use, in the order Array.prototype.sort
\* puts them.
SortedKeys == <<"asset", "name", "owner">>

\* Buffer(0)
EmptyBuffer == << >>

RECURSIVE Stringify(_, _)
\* JSON.stringify(obj, keys): the listed properties in the listed order; a
\* property that is not there or is undefined is left out.
Stringify(obj, keys) ==
    IF keys = << >> THEN << >>
    ELSE LET k == Head(keys)
         IN  IF k \in DOMAIN obj /\ obj[k] # Undefined
             THEN << <<k, obj[k]>> >> \o Stringify(obj, Tail(keys))
             ELSE Stringify(obj, Tail(keys))

\* encode = obj => Buffer.from(JSON.stringify(obj, Object.keys(obj).sort()))
encode(obj) == Stringify(obj, SelectSeq(SortedKeys, LAMBDA k : k \in DOMAIN obj))

\* decode = buf => JSON.parse(buf.toString()).  JSON.parse("") throws a
\* SyntaxError: the result says what was thrown, and holds the parsed object
\* in `value` only when nothing was.
decode(buf) ==
    IF Len(buf) = 0
    THEN [threw |-> "SyntaxError"]
    ELSE [threw |-> "none",
          value |-> [k \in {buf[i][1] : i \in DOMAIN buf} |->
                       LET i == CHOOSE j \in DOMAIN buf : buf[j][1] = k IN buf[i][2]]]

\* obj.prop in JavaScript: undefined when the object has no such property.
Prop(obj, p) == IF p \in DOMAIN obj THEN obj[p] ELSE Undefined

\* ------------------------------------------------------------------------
\* Outcomes of a request
\* ------------------------------------------------------------------------

NoWrites == << >>

\* The promise resolves: state.set was called once, with `writes`.
Resolved(writes) == [type |-> "ok", message |-> "", writes |-> writes]

\* throw new InvalidTransaction(message): no state.set.
InvalidTransaction(message) ==
    [type |-> "InvalidTransaction", message |-> message, writes |-> NoWrites]

\* An exception of the JavaScript runtime, not an InvalidTransaction.
RuntimeError(type) == [type |-> type, message |-> "", writes |-> NoWrites]

AssetAlreadyExists == InvalidTransaction("Asset name in use")
AssetNotFound == InvalidTransaction("Asset does not exist")
NotOwner == InvalidTransaction("Only an Asset's owner may transfer it")
NoPendingTransfer == InvalidTransaction("Asset is not being transfered")
NoPendingApproval == InvalidTransaction("Asset is not being transfered")
NotDesignatedBuyer ==
    InvalidTransaction("Transfers can only be acknowledged by the new buyer")
NotRegulator == InvalidTransaction("You are not a regulator")
NotProspectiveOwner ==
    InvalidTransaction("Transfers can only be rejected by the potential new owner")
InvalidAction ==
    InvalidTransaction("Action must be \"create\", \"transfer\", \"acknowledge\", \"accept\", or \"reject\"")

\* ------------------------------------------------------------------------
\* StateStore port
\* ------------------------------------------------------------------------

\* state.get(addresses): the entries of the requested addresses.  An address
\* holding nothing is left out or reported zero-length, as `missing` says.
get(st, addresses, missing) ==
    LET reported == IF missing = "omitted"
                    THEN {a \in addresses : st[a] # EmptyBuffer}
                    ELSE addresses
    IN  [a \in reported |-> st[a]]

\* state.set(writes) on the store.
set(st, writes) ==
    [a \in DOMAIN st |-> IF a \in DOMAIN writes THEN writes[a] ELSE st[a]]

\* !entry || entry.length === 0
IsBlank(entries, address) ==
    \/ address \notin DOMAIN entries
    \/ Len(entries[address]) = 0

\* ------------------------------------------------------------------------
\* Transition rules
\* ------------------------------------------------------------------------

\* createAsset without the test for a name in use.
createAsset_Overwrite(asset, owner, st, missing) ==
    LET address == getAssetAddress(asset)
    IN  Resolved(address :> encode([name |-> asset, owner |-> owner]))

\* createAsset keeping every asset at the address of one name.
createAsset_OneAddress(asset, owner, st, missing) ==
    LET address == getAssetAddress("widget")
        entries == get(st, {address}, missing)
    IN  IF ~IsBlank(entries, address)
        THEN AssetAlreadyExists
        ELSE Resolved(address :> encode([name |-> asset, owner |-> owner]))

\* createAsset testing the entry for truthiness only, not for its length.
createAsset_TruthyOnly(asset, owner, st, missing) ==
    LET address == getAssetAddress(asset)
        entries == get(st, {address}, missing)
    IN  IF address \in DOMAIN entries
        THEN AssetAlreadyExists
        ELSE Resolved(address :> encode([name |-> asset, owner |-> owner]))

\* Add a new asset to state
createAsset(asset, owner, st, missing) ==
    LET address == getAssetAddress(asset)
        entries == get(st, {address}, missing)
    IN  IF ~IsBlank(entries, address)
        THEN AssetAlreadyExists
        ELSE Resolved(address :> encode([name |-> asset, owner |-> owner]))

\* transferAsset without the test that the signer owns the asset.
transferAsset_AnySigner(asset, owner, signer, st, missing) ==
    LET acknAddress == getTransferAcknAddress(asset)
        assetAddress == getAssetAddress(asset)
        entries == get(st, {assetAddress}, missing)
    IN  IF IsBlank(entries, assetAddress)
        THEN AssetNotFound
        ELSE Resolved(acknAddress :> encode([asset |-> asset, owner |-> owner]))

\* transferAsset setting the offer at the asset's own address.
transferAsset_WritesAsset(asset, owner, signer, st, missing) ==
    LET assetAddress == getAssetAddress(asset)
        entries == get(st, {assetAddress}, missing)
    IN  IF IsBlank(entries, assetAddress)
        THEN AssetNotFound
        ELSE IF decode(entries[assetAddress]).threw # "none"
        THEN RuntimeError(decode(entries[assetAddress]).threw)
        ELSE IF signer # Prop(decode(entries[assetAddress]).value, "owner")
        THEN NotOwner
        ELSE Resolved(assetAddress :> encode([asset |-> asset, owner |-> owner]))

\* transferAsset setting the offer at the transfer address it computes.
transferAsset_WritesTransferSlot(asset, owner, signer, st, missing) ==
    LET address == getTransferAddress(asset)
        assetAddress == getAssetAddress(asset)
        entries == get(st, {assetAddress}, missing)
    IN  IF IsBlank(entries, assetAddress)
        THEN AssetNotFound
        ELSE IF decode(entries[assetAddress]).threw # "none"
        THEN RuntimeError(decode(entries[assetAddress]).threw)
        ELSE IF signer # Prop(decode(entries[assetAddress]).value, "owner")
        THEN NotOwner
        ELSE Resolved(address :> encode([asset |-> asset, owner |-> owner]))

\* transferAsset recording the signer, not the new owner, in the offer.
transferAsset_SignerAsBuyer(asset, owner, signer, st, missing) ==
    LET acknAddress == getTransferAcknAddress(asset)
        assetAddress == getAssetAddress(asset)
        entries == get(st, {assetAddress}, missing)
    IN  IF IsBlank(entries, assetAddress)
        THEN AssetNotFound
        ELSE IF decode(entries[assetAddress]).threw # "none"
        THEN RuntimeError(decode(entries[assetAddress]).threw)
        ELSE IF signer # Prop(decode(entries[assetAddress]).value, "owner")
        THEN NotOwner
        ELSE Resolved(acknAddress :> encode([asset |-> asset, owner |-> signer]))

\* transferAsset without the test that the asset exists.
transferAsset_NoExistenceCheck(asset, owner, signer, st, missing) ==
    LET acknAddress == getTransferAcknAddress(asset)
        assetAddress == getAssetAddress(asset)
        entries == get(st, {assetAddress}, missing)
    IN  IF ~IsBlank(entries, assetAddress)
           /\ signer # Prop(decode(entries[assetAddress]).value, "owner")
        THEN NotOwner
        ELSE Resolved(acknAddress :> encode([asset |-> asset, owner |-> owner]))

\* transferAsset refusing an offer while an earlier one is live.
transferAsset_FirstOfferWins(asset, owner, signer, st, missing) ==
    LET acknAddress == getTransferAcknAddress(asset)
        assetAddress == getAssetAddress(asset)
        entries == get(st, {assetAddress, acknAddress}, missing)
    IN  IF IsBlank(entries, assetAddress)
        THEN AssetNotFound
        ELSE IF decode(entries[assetAddress]).threw # "none"
        THEN RuntimeError(decode(entries[assetAddress]).threw)
        ELSE IF signer # Prop(decode(entries[assetAddress]).value, "owner")
        THEN NotOwner
        ELSE IF ~IsBlank(entries, acknAddress)
        THEN InvalidTransaction("Asset is already being transfered")
        ELSE Resolved(acknAddress :> encode([asset |-> asset, owner |-> owner]))

\* Add a new transfer to state
transferAsset(asset, owner, signer, st, missing) ==
    LET acknAddress == getTransferAcknAddress(asset)
        assetAddress == getAssetAddress(asset)
        entries == get(st, {assetAddress}, missing)
    IN  IF IsBlank(entries, assetAddress)
        THEN AssetNotFound
        ELSE IF decode(entries[assetAddress]).threw # "none"
        THEN RuntimeError(decode(entries[assetAddress]).threw)
        ELSE IF signer # Prop(decode(entries[assetAddress]).value, "owner")
        THEN NotOwner
        ELSE Resolved(acknAddress :> encode([asset |-> asset, owner |-> owner]))

\* acknowledgeTransfer that leaves the acknowledgment slot as it is.
acknowledgeTransfer_KeepsOffer(asset, signer, st, missing) ==
    LET acknAddress == getTransferAcknAddress(asset)
        entries == get(st, {acknAddress}, missing)
    IN  IF IsBlank(entries, acknAddress)
        THEN NoPendingTransfer
        ELSE IF decode(entries[acknAddress]).threw # "none"
        THEN RuntimeError(decode(entries[acknAddress]).threw)
        ELSE IF signer # Prop(decode(entries[acknAddress]).value, "owner")
        THEN NotDesignatedBuyer
        ELSE Resolved(getTransferApproveAddress(asset) :>
                          encode([name |-> asset, owner |-> signer]))

\* acknowledgeTransfer without the test that the signer is the new buyer.
acknowledgeTransfer_AnySigner(asset, signer, st, missing) ==
    LET acknAddress == getTransferAcknAddress(asset)
        entries == get(st, {acknAddress}, missing)
    IN  IF IsBlank(entries, acknAddress)
        THEN NoPendingTransfer
        ELSE Resolved(
                 (acknAddress :> EmptyBuffer) @@
                 (getTransferApproveAddress(asset) :>
                      encode([name |-> asset, owner |-> signer])))

\* acknowledgeTransfer that clears the offer and sets no approval record.
acknowledgeTransfer_ClearsOnly(asset, signer, st, missing) ==
    LET acknAddress == getTransferAcknAddress(asset)
        entries == get(st, {acknAddress}, missing)
    IN  IF IsBlank(entries, acknAddress)
        THEN NoPendingTransfer
        ELSE IF decode(entries[acknAddress]).threw # "none"
        THEN RuntimeError(decode(entries[acknAddress]).threw)
        ELSE IF signer # Prop(decode(entries[acknAddress]).value, "owner")
        THEN NotDesignatedBuyer
        ELSE Resolved(acknAddress :> EmptyBuffer)

\* Acknowledge a transfer as a purchasee, clearing it and initiating changing
\* asset ownership
acknowledgeTransfer(asset, signer, st, missing) ==
    LET acknAddress == getTransferAcknAddress(asset)
        entries == get(st, {acknAddress}, missing)
    IN  IF IsBlank(entries, acknAddress)
        THEN NoPendingTransfer
        ELSE IF decode(entries[acknAddress]).threw # "none"
        THEN RuntimeError(decode(entries[acknAddress]).threw)
        ELSE IF signer # Prop(decode(entries[acknAddress]).value, "owner")
        THEN NotDesignatedBuyer
        ELSE Resolved(
                 (acknAddress :> EmptyBuffer) @@
                 (getTransferApproveAddress(asset) :>
                      encode([name |-> asset, owner |-> signer])))

\* acceptTransfer testing the regulator entry before the transfer entry.
acceptTransfer_RegulatorFirst(asset, signer, st, missing) ==
    LET acknAddress == getTransferAcknAddress(asset)
        address == getTransferAddress(asset)
        entries == get(st, {acknAddress}, missing)
    IN  IF IsBlank(entries, getRegulatorAddress(signer))
        THEN NotRegulator
        ELSE IF IsBlank(entries, address)
        THEN NoPendingApproval
        ELSE Resolved(
                 (address :> encode([name |-> asset, owner |-> signer])) @@
                 (getTransferApproveAddress(asset) :> EmptyBuffer))

\* Accept a transfer as a regulator, clearing it and changing asset ownership.
\* The get asks for the acknowledgment address only; the entries then read
\* are those of the transfer address and of the signer's regulator address.
acceptTransfer(asset, signer, st, missing) ==
    LET acknAddress == getTransferAcknAddress(asset)
        address == getTransferAddress(asset)
        entries == get(st, {acknAddress}, missing)
    IN  IF IsBlank(entries, address)
        THEN NoPendingApproval
        ELSE IF IsBlank(entries, getRegulatorAddress(signer))
        THEN NotRegulator
        ELSE Resolved(
                 (address :> encode([name |-> asset, owner |-> signer])) @@
                 (getTransferApproveAddress(asset) :> EmptyBuffer))

\* Reject a transfer, clearing it.  The entry is decoded without a presence
\* check: for an entry left out, undefined.toString() is a TypeError; for a
\* zero-length one decode throws.
rejectTransfer(asset, signer, st, missing) ==
    LET address == getTransferAddress(asset)
        entries == get(st, {address}, missing)
    IN  IF address \notin DOMAIN entries
        THEN RuntimeError("TypeError")
        ELSE IF decode(entries[address]).threw # "none"
        THEN RuntimeError(decode(entries[address]).threw)
        ELSE IF signer # Prop(decode(entries[address]).value, "owner")
        THEN NotProspectiveOwner
        ELSE Resolved(address :> EmptyBuffer)

\* ------------------------------------------------------------------------
\* Handler for JSON encoded payloads
\* ------------------------------------------------------------------------

Actions == {"create", "transfer", "acknowledge", "accept", "reject"}

\* An action tag that is none of the five.
UnknownActions == {"delete"}

\* apply falling through to createAsset for an action it does not know.
apply_DefaultCreate(signer, action, asset, owner, st, missing) ==
    IF action = "transfer" THEN transferAsset(asset, owner, signer, st, missing)
    ELSE IF action = "acknowledge" THEN acknowledgeTransfer(asset, signer, st, missing)
    ELSE IF action = "accept" THEN acceptTransfer(asset, signer, st, missing)
    ELSE IF action = "reject" THEN rejectTransfer(asset, signer, st, missing)
    ELSE createAsset(asset, signer, st, missing)

\* JSONHandler.apply: call the rule the payload's action names.
apply(signer, action, asset, owner, st, missing) ==
    IF action = "create" THEN createAsset(asset, signer, st, missing)
    ELSE IF action = "transfer" THEN transferAsset(asset, owner, signer, st, missing)
    ELSE IF action = "acknowledge" THEN acknowledgeTransfer(asset, signer, st, missing)
    ELSE IF action = "accept" THEN acceptTransfer(asset, signer, st, missing)
    ELSE IF action = "reject" THEN rejectTransfer(asset, signer, st, missing)
    ELSE InvalidAction

\* The addresses a rule passes to state.get.
ReadAddresses(action, asset) ==
    IF action = "create" THEN {getAssetAddress(asset)}
    ELSE IF action = "transfer" THEN {getAssetAddress(asset)}
    ELSE IF action = "acknowledge" THEN {getTransferAcknAddress(asset)}
    ELSE IF action = "accept" THEN {getTransferAcknAddress(asset)}
    ELSE IF action = "reject" THEN {getTransferAddress(asset)}
    ELSE {}

\* The addresses a rule passes to state.set: its complete write-set.
WriteAddresses(action, asset) ==
    IF action = "create" THEN {getAssetAddress(asset)}
    ELSE IF action = "transfer" THEN {getTransferAcknAddress(asset)}
    ELSE IF action = "acknowledge"
    THEN {getTransferAcknAddress(asset), getTransferApproveAddress(asset)}
    ELSE IF action = "accept"
    THEN {getTransferAddress(asset), getTransferApproveAddress(asset)}
    ELSE IF action = "reject" THEN {getTransferAddress(asset)}
    ELSE {}

\* The state.set calls a request issues: one when its promise resolves, none
\* when a check throws.
SetCalls(outcome) == IF outcome.type = "ok" THEN <<outcome.writes>> ELSE << >>

\* ------------------------------------------------------------------------
\* State machine
\* ------------------------------------------------------------------------

VARIABLES
    state,      \* the ledger: address -> bytes (EmptyBuffer where nothing is held)
    last,       \* the request the store answered last, its outcome and how far it got
    requests,   \* number of requests whose get was answered
    offered,    \* history: the assets a successful OfferTransfer has named
    hist,       \* history: the successful offers and acknowledgments
    conc        \* the requests in flight: between their get and their set

vars == <<state, last, requests, offered, hist, conc>>

\* The requests the surrounding runtime has in flight at once.
Workers == {1, 2}

\* A record is held at the address.
Present(st, address) == st[address] # EmptyBuffer

\* Asset[a].owner of a present asset record.
AssetOwner(st, a) == Prop(decode(st[getAssetAddress(a)]).value, "owner")

IsRegulator(st, id) == Present(st, getRegulatorAddress(id))

\* Every address a request reads or writes.
Touched(t) == ReadAddresses(t.action, t.asset) \cup WriteAddresses(t.action, t.asset)

\* No successful offer or acknowledgment yet.
NoHistory == [offers |-> {}, acks |-> {}]

\* A request whose set was committed, added to the history.  An offer is kept
\* with its signer, the new owner it names and whether the signer was
\* Asset[a].owner in the ledger its get was answered on.
Remember(h, txn, owned) ==
    IF txn.action = "transfer"
    THEN [h EXCEPT !.offers = @ \cup
            {[asset |-> txn.asset, signer |-> txn.signer, newOwner |-> txn.owner,
              byOwner |-> owned]}]
    ELSE IF txn.action = "acknowledge"
    THEN [h EXCEPT !.acks = @ \cup {[asset |-> txn.asset, signer |-> txn.signer]}]
    ELSE h

\* No request is in flight.  Of a request in flight: `owned` says that its
\* signer was Asset[a].owner when its get was answered, `stale` that another
\* request's set has since been committed at an address it reads or writes.
NotConcurrent ==
    [pc |-> [w \in Workers |-> "idle"],
     txn |-> [w \in Workers |-> << >>],
     out |-> [w \in Workers |-> << >>],
     owned |-> [w \in Workers |-> FALSE],
     stale |-> [w \in Workers |-> FALSE],
     base |-> << >>,
     overlapped |-> FALSE]

\* The presence-only record of a registered regulator.
RegulatorRecord(id) == encode([name |-> id])

\* No request answered yet.
NoRequest ==
    [signer |-> Undefined, action |-> "none", asset |-> Undefined,
     owner |-> Undefined, outcome |-> RuntimeError("none"),
     phase |-> "none", stale |-> FALSE]

\* The handler is constructed over a ledger that holds no asset and no
\* transfer record; regulator1 was registered as regulator beforehand.
Init ==
    /\ \E regs \in {{"regulator1"}} :
          state = [a \in Addresses |->
                     IF \E r \in regs : a = getRegulatorAddress(r)
                     THEN RegulatorRecord(CHOOSE r \in regs : a = getRegulatorAddress(r))
                     ELSE EmptyBuffer]
    /\ last = NoRequest
    /\ requests = 0
    /\ offered = {}
    /\ hist = NoHistory
    /\ conc = NotConcurrent

\* JSONHandler.apply for one request, up to its promise being rejected or its
\* set being issued: the store answers the rule's get with the entries as
\* they are now and the callback runs the rule's checks.  When one throws the
\* request is over ("thrown"); when none does the callback issues the rule's
\* single set ("issued") and the request stays in flight until Commit.  Other
\* requests take their steps in between.  The request in flight whose get
\* was answered first is worker 1's.
Handle(w, signer, action, asset, owner, missing) ==
    LET outcome == apply(signer, action, asset, owner, state, missing)
        txn == [signer |-> signer, action |-> action, asset |-> asset,
                owner |-> owner]
        ok == outcome.type = "ok"
    IN  /\ requests < MaxRequests
        /\ conc.pc[w] = "idle"
        /\ (w = 2) => (conc.pc[1] = "set")
        /\ requests' = requests + 1
        /\ last' = [signer |-> signer, action |-> action, asset |-> asset,
                    owner |-> owner, outcome |-> outcome,
                    phase |-> IF ok THEN "issued" ELSE "thrown",
                    stale |-> FALSE]
        /\ conc' = IF ok
                   THEN [conc EXCEPT
                           !.pc[w] = "set",
                           !.txn[w] = txn,
                           !.out[w] = outcome,
                           !.owned[w] = /\ Present(state, getAssetAddress(asset))
                                        /\ signer = AssetOwner(state, asset),
                           !.stale[w] = FALSE]
                   ELSE conc
        /\ UNCHANGED <<state, offered, hist>>

\* The store commits the set that worker w's request issued, all of it at
\* once, and the request's promise resolves.
Commit(w) ==
    LET txn == conc.txn[w]
        writes == conc.out[w].writes
    IN  /\ conc.pc[w] = "set"
        /\ state' = set(state, writes)
        /\ last' = [signer |-> txn.signer, action |-> txn.action,
                    asset |-> txn.asset, owner |-> txn.owner,
                    outcome |-> conc.out[w],
                    phase |-> "committed", stale |-> conc.stale[w]]
        /\ offered' = IF txn.action = "transfer" THEN offered \cup {txn.asset}
                      ELSE offered
        /\ hist' = Remember(hist, txn, conc.owned[w])
        /\ conc' = [conc EXCEPT
                      !.pc[w] = "idle",
                      !.txn[w] = << >>,
                      !.out[w] = << >>,
                      !.owned[w] = FALSE,
                      !.stale = [v \in Workers |->
                                   IF v = w \/ conc.pc[v] # "set" THEN FALSE
                                   ELSE \/ conc.stale[v]
                                        \/ DOMAIN writes \cap Touched(conc.txn[v]) # {}]]
        /\ UNCHANGED requests

CreateAsset ==
    \E w \in Workers, s \in Signers, a \in Assets, m \in MissingAs :
        Handle(w, s, "create", a, Undefined, m)

OfferTransfer ==
    \E w \in Workers, s \in Signers, a \in Assets, o \in Signers \cup {Undefined},
       m \in MissingAs :
        Handle(w, s, "transfer", a, o, m)

AcknowledgeTransfer ==
    \E w \in Workers, s \in Signers, a \in Assets, m \in MissingAs :
        Handle(w, s, "acknowledge", a, Undefined, m)

ApproveTransfer ==
    \E w \in Workers, s \in Signers, a \in Assets, m \in MissingAs :
        Handle(w, s, "accept", a, Undefined, m)

RejectTransfer ==
    \E w \in Workers, s \in Signers, a \in Assets, m \in MissingAs :
        Handle(w, s, "reject", a, Undefined, m)

UnknownAction ==
    \E w \in Workers, s \in Signers, a \in Assets, t \in UnknownActions,
       m \in MissingAs :
        Handle(w, s, t, a, Undefined, m)

Next ==
    \/ CreateAsset
    \/ OfferTransfer
    \/ AcknowledgeTransfer
    \/ ApproveTransfer
    \/ RejectTransfer
    \/ UnknownAction
    \/ \E w \in Workers : Commit(w)

Spec == Init /\ [][Next]_vars

\* ------------------------------------------------------------------------
\* Two requests in flight on a ledger built by earlier requests
\* ------------------------------------------------------------------------

\* Requests handled one after the other before the two concurrent ones start.
MaxPrefix == 2

\* The ledger after one request handled from its get to its set with no step
\* of another request in between.
RunToCompletion(st, signer, action, asset, owner, missing) ==
    LET outcome == apply(signer, action, asset, owner, st, missing)
    IN  IF outcome.type = "ok" THEN set(st, outcome.writes) ELSE st

\* The get of a request handled alone, before the concurrent ones, is
\* answered.  Only the requests that pass their checks have a step: a failed
\* one leaves every variable this specification looks at as it was.
SerialGet ==
    /\ \A w \in Workers : conc.pc[w] = "idle"
    /\ requests < MaxPrefix
    /\ \E s \in Signers, t \in Actions, a \in Assets,
          o \in Signers \cup {Undefined}, m \in MissingAs :
          /\ (t # "transfer") => (o = Undefined)
          /\ LET outcome == apply(s, t, a, o, state, m)
             IN  /\ outcome.type = "ok"
                 /\ conc' = [conc EXCEPT !.pc[1] = "alone", !.out[1] = outcome]
    /\ UNCHANGED <<state, last, requests, offered, hist>>

\* The set of the request handled alone is committed.
SerialSet ==
    /\ conc.pc[1] = "alone"
    /\ state' = set(state, conc.out[1].writes)
    /\ requests' = requests + 1
    /\ conc' = [conc EXCEPT !.pc[1] = "idle", !.out[1] = << >>]
    /\ UNCHANGED <<last, offered, hist>>

\* The store answers the get of worker w's request: the callback runs the
\* rule's checks on the entries as they are now and throws or issues its set.
\* The worker whose get is answered first is called 1.  A request with an
\* unknown action issues neither get nor set and has no step here.
GetAnswered(w) ==
    /\ conc.pc[w] = "idle"
    /\ (w = 2) => (conc.pc[1] \in {"set", "done"})
    /\ \E s \in Signers, t \in Actions, a \in Assets,
          o \in Signers \cup {Undefined}, m \in MissingAs :
          /\ (t # "transfer") => (o = Undefined)
          /\ LET outcome == apply(s, t, a, o, state, m)
                 first == \A v \in Workers : conc.pc[v] = "idle"
             IN  conc' = [conc EXCEPT
                    !.pc[w] = IF outcome.type = "ok" THEN "set" ELSE "done",
                    !.txn[w] = [signer |-> s, action |-> t, asset |-> a,
                                owner |-> o],
                    !.out[w] = outcome,
                    !.base = IF first THEN state ELSE @,
                    !.overlapped = \E v \in Workers \ {w} : conc.pc[v] = "set"]
    /\ UNCHANGED <<state, last, requests, offered, hist>>

\* The store commits the set worker w's request issued.
SetCommitted(w) ==
    /\ conc.pc[w] = "set"
    /\ state' = set(state, conc.out[w].writes)
    /\ conc' = [conc EXCEPT !.pc[w] = "done"]
    /\ UNCHANGED <<last, requests, offered, hist>>

NextConc ==
    \/ SerialGet
    \/ SerialSet
    \/ \E w \in Workers : GetAnswered(w)
    \/ \E w \in Workers : SetCommitted(w)

\* The ledger the handler starts on, with regulator1 registered.
InitConc ==
    /\ Init
    /\ \A s \in Signers : IsRegulator(state, s) <=> (s = "regulator1")

SpecConc == InitConc /\ [][NextConc]_vars

\* ------------------------------------------------------------------------
\* Reading the ledger
\* ------------------------------------------------------------------------

AssetRecord(st, a) == st[getAssetAddress(a)]
TransferSlot(st, a) == st[getTransferAddress(a)]
AcknSlot(st, a) == st[getTransferAcknAddress(a)]
ApproveSlot(st, a) == st[getTransferApproveAddress(a)]

\* The request answered last succeeded: its set was committed.
Succeeded(l) == l.outcome.type = "ok" /\ l.phase = "committed"

\* The request answered last passed its checks and issued its set; the set
\* is not committed yet.
Issued(l) == l.outcome.type = "ok" /\ l.phase = "issued"

\* The request answered last was rejected with `error`, with no set.
Rejected(l, error) ==
    l.outcome = error /\ l.outcome.writes = NoWrites /\ l.phase = "thrown"

\* ------------------------------------------------------------------------
\* Claims
\* ------------------------------------------------------------------------

\* C1: end-to-end transfer.  Once CreateAsset(a) by o, OfferTransfer(a, b) by
\* o and AcknowledgeTransfer(a) by b have succeeded, ApproveTransfer(a) signed
\* by a registered regulator passes its checks and issues the set that makes
\* Asset[a].owner = b and empties the approval slot of a.
C1_ApproveCompletesTransfer ==
    [][ \A a \in Assets, b \in Signers :
          ( /\ last.action = "acknowledge" /\ last.asset = a /\ last.signer = b
            /\ Succeeded(last)
            /\ requests' # requests
            /\ last'.action = "accept" /\ last'.asset = a
            /\ IsRegulator(state, last'.signer) )
          => ( /\ Issued(last')
               /\ LET after == set(state, last'.outcome.writes)
                  IN  /\ Present(after, getAssetAddress(a))
                      /\ AssetOwner(after, a) = b
                      /\ ApproveSlot(after, a) = EmptyBuffer ) ]_vars

\* C2: a CreateAsset(n) signed by A that succeeded stored owner A, and every
\* CreateAsset(n) whose get is answered after that fails AssetAlreadyExists,
\* writes nothing and leaves the stored record as it was.  The only create
\* that commits onto an existing record is one that was in flight while
\* another request's set was committed at its address.
C2_CreateOnce ==
    /\ [](last.action = "create" /\ Succeeded(last)
            => /\ Present(state, getAssetAddress(last.asset))
               /\ AssetOwner(state, last.asset) = last.signer)
    /\ [][ \A n \in Assets :
             ( /\ Present(state, getAssetAddress(n))
               /\ requests' # requests
               /\ last'.action = "create" /\ last'.asset = n )
             => ( /\ Rejected(last', AssetAlreadyExists)
                  /\ state' = state
                  /\ AssetOwner(state', n) = AssetOwner(state, n) ) ]_vars
    /\ [][ \A n \in Assets :
             ( /\ Present(state, getAssetAddress(n))
               /\ conc' # conc
               /\ last'.action = "create" /\ last'.asset = n /\ Succeeded(last') )
             => last'.stale ]_vars

\* C2 witness: a second creation of an existing name by another signer failed.
C2_Witness ==
    /\ last.action = "create"
    /\ last.outcome = AssetAlreadyExists
    /\ Present(state, getAssetAddress(last.asset))
    /\ AssetOwner(state, last.asset) # last.signer

\* C3: a successful AcknowledgeTransfer(a) signed by b issues one write-set
\* of exactly two addresses: the acknowledgment slot of a, zero-length, and
\* the approval slot of a, holding {name: a, owner: b}.  Asset[a] is not in it.
C3_AcknowledgeWrites ==
    (last.action = "acknowledge" /\ Succeeded(last)) =>
        LET a == last.asset
            b == last.signer
            writes == last.outcome.writes
        IN  /\ DOMAIN writes = {getTransferAcknAddress(a), getTransferApproveAddress(a)}
            /\ Len(writes[getTransferAcknAddress(a)]) = 0
            /\ writes[getTransferApproveAddress(a)] = << <<"name", a>>, <<"owner", b>> >>
            /\ AcknSlot(state, a) = EmptyBuffer
            /\ ApproveSlot(state, a) = << <<"name", a>>, <<"owner", b>> >>
            /\ getAssetAddress(a) \notin DOMAIN writes

\* C3 witness: the designated buyer's acknowledgment went through.
C3_Witness ==
    /\ last.action = "acknowledge"
    /\ Succeeded(last)
    /\ Present(state, getTransferApproveAddress(last.asset))

\* C4: RejectTransfer(a) signed by the prospective owner b while the transfer
\* of a to b awaits approval passes its checks and issues the set that clears
\* the pending record and leaves Asset[a] as it was: a is back in 'created'
\* with every transfer slot empty.
C4_RejectReturnsToCreated ==
    [][ \A a \in Assets, b \in Signers :
          ( /\ last.action = "acknowledge" /\ last.asset = a /\ last.signer = b
            /\ Succeeded(last)
            /\ requests' # requests
            /\ last'.action = "reject" /\ last'.asset = a /\ last'.signer = b )
          => ( /\ Issued(last')
               /\ LET after == set(state, last'.outcome.writes)
                  IN  /\ AssetRecord(after, a) = AssetRecord(state, a)
                      /\ TransferSlot(after, a) = EmptyBuffer
                      /\ AcknSlot(after, a) = EmptyBuffer
                      /\ ApproveSlot(after, a) = EmptyBuffer ) ]_vars

\* C5: OfferTransfer(a, newOwner) signed by anyone but the owner recorded in
\* Asset[a] when its get is answered fails NotOwner and writes nothing: the
\* ledger is unchanged.
C5_OfferByNonOwner ==
    [][ \A a \in Assets :
          ( /\ Present(state, getAssetAddress(a))
            /\ requests' # requests
            /\ last'.action = "transfer" /\ last'.asset = a
            /\ last'.signer # AssetOwner(state, a) )
          => ( /\ Rejected(last', NotOwner)
               /\ state' = state ) ]_vars

\* C5 witness: a non-owner's offer on an existing asset was refused.
C5_Witness ==
    /\ last.action = "transfer"
    /\ Present(state, getAssetAddress(last.asset))
    /\ last.signer # AssetOwner(state, last.asset)
    /\ last.outcome = NotOwner

\* C6: AcknowledgeTransfer(a) signed by anyone but the buyer recorded in the
\* acknowledgment slot of a when its get is answered fails NotDesignatedBuyer;
\* the acknowledgment slot keeps its record and no approval record is written.
C6_AcknowledgeByOther ==
    [][ \A a \in Assets :
          ( /\ Present(state, getTransferAcknAddress(a))
            /\ requests' # requests
            /\ last'.action = "acknowledge" /\ last'.asset = a
            /\ last'.signer # Prop(decode(AcknSlot(state, a)).value, "owner") )
          => ( /\ Rejected(last', NotDesignatedBuyer)
               /\ AcknSlot(state', a) = AcknSlot(state, a)
               /\ ApproveSlot(state', a) = ApproveSlot(state, a)
               /\ state' = state ) ]_vars

\* C6 witness: someone other than the recorded buyer tried to acknowledge a
\* live offer.
C6_Witness ==
    /\ last.action = "acknowledge"
    /\ Present(state, getTransferAcknAddress(last.asset))
    /\ last.signer # Prop(decode(AcknSlot(state, last.asset)).value, "owner")
    /\ last.outcome = NotDesignatedBuyer

\* C7: ApproveTransfer(a) while the approval record of a is present, signed
\* by an identity without a Regulator record, fails NotRegulator, not with a
\* 'no pending' error, and writes nothing.
C7_ApproveByNonRegulator ==
    [][ \A a \in Assets :
          ( /\ Present(state, getTransferApproveAddress(a))
            /\ requests' # requests
            /\ last'.action = "accept" /\ last'.asset = a
            /\ ~IsRegulator(state, last'.signer) )
          => ( /\ Rejected(last', NotRegulator)
               /\ last'.outcome # NoPendingApproval
               /\ state' = state ) ]_vars

\* C8: on an asset no OfferTransfer has succeeded for, AcknowledgeTransfer
\* fails NoPendingTransfer and ApproveTransfer fails NoPendingApproval, for
\* every signer, and the ledger is unchanged.
C8_NoPendingWithoutOffer ==
    [][ \A a \in Assets :
          (a \notin offered /\ requests' # requests /\ last'.asset = a) =>
            /\ last'.action = "acknowledge" =>
                 (Rejected(last', NoPendingTransfer) /\ state' = state)
            /\ last'.action = "accept" =>
                 (Rejected(last', NoPendingApproval) /\ state' = state) ]_vars

\* C8 witness: an approval was asked, by a registered regulator, for an
\* existing asset that was never offered.
C8_Witness ==
    /\ last.action = "accept"
    /\ last.asset \notin offered
    /\ Present(state, getAssetAddress(last.asset))
    /\ IsRegulator(state, last.signer)
    /\ last.outcome = NoPendingApproval

\* C9: RejectTransfer on an asset no OfferTransfer has succeeded for is
\* refused as an invalid request (an InvalidTransaction, not an error of the
\* runtime) and writes nothing.
C9_RejectWithoutOffer ==
    (last.action = "reject" /\ last.asset \notin offered) =>
        /\ last.outcome.type = "InvalidTransaction"
        /\ last.outcome.writes = NoWrites

\* C10: an Asset record once present stays present, and it changes only by a
\* successful ApproveTransfer of that asset; every other request, and every
\* failed one, leaves it as it was.  The requests follow one another as the
\* surrounding runtime serialises them: the one exception is a CreateAsset
\* that was in flight while another request's set was committed at its
\* address.
C10_AssetRecordStable ==
    [][ \A a \in Assets :
          Present(state, getAssetAddress(a)) =>
            /\ Present(state', getAssetAddress(a))
            /\ ( AssetRecord(state', a) # AssetRecord(state, a)
                 => \/ ( last'.action = "accept" /\ last'.asset = a
                         /\ Succeeded(last') )
                    \/ ( last'.action = "create" /\ last'.asset = a
                         /\ Succeeded(last') /\ last'.stale ) )
            /\ ( ~Succeeded(last') \/ (last'.action \notin {"accept", "create"})
                 \/ last'.asset # a
                 => AssetOwner(state', a) = AssetOwner(state, a) ) ]_vars

\* C10 witness: the owner's offer and the buyer's acknowledgment both went
\* through on an existing asset, which is still held by someone else than
\* the buyer.
C10_Witness ==
    /\ last.action = "acknowledge"
    /\ Succeeded(last)
    /\ Present(state, getAssetAddress(last.asset))
    /\ AssetOwner(state, last.asset) # last.signer

\* C11: a request that succeeds issues exactly one set, holding the complete
\* write-set of its rule; until that set is committed the ledger shows none
\* of it, and the step that commits it changes the ledger at exactly those
\* addresses, all at once.  A request that fails issues no set and the
\* ledger stays as it was.  No step commits a part of a rule's write-set.
C11_AtomicWriteSet ==
    [][ LET l == last'
            calls == SetCalls(l.outcome)
        IN  IF Succeeded(l)
            THEN /\ Len(calls) = 1
                 /\ DOMAIN calls[1] = WriteAddresses(l.action, l.asset)
                 /\ \A x \in Addresses :
                      state'[x] = IF x \in WriteAddresses(l.action, l.asset)
                                  THEN calls[1][x]
                                  ELSE state[x]
            ELSE IF Issued(l)
            THEN /\ Len(calls) = 1
                 /\ DOMAIN calls[1] = WriteAddresses(l.action, l.asset)
                 /\ state' = state
            ELSE /\ Len(calls) = 0
                 /\ l.outcome.writes = NoWrites
                 /\ state' = state ]_vars

\* C11 witness: a request whose write-set has two addresses went through.
C11_Witness ==
    /\ Succeeded(last)
    /\ Cardinality(DOMAIN last.outcome.writes) = 2
    /\ \A x \in DOMAIN last.outcome.writes : state[x] = last.outcome.writes[x]

\* C13: a request whose action tag is none of the five fails InvalidAction
\* and no address of the ledger is written.
C13_UnknownActionRejected ==
    [][ (requests' # requests /\ last'.action \notin Actions)
        => ( /\ Rejected(last', InvalidAction)
             /\ DOMAIN last'.outcome.writes = {}
             /\ state' = state ) ]_vars

\* C13 witness: an unknown action was refused on a ledger that holds the
\* asset it names.
C13_Witness ==
    /\ last.action \in UnknownActions
    /\ last.outcome = InvalidAction
    /\ Present(state, getAssetAddress(last.asset))

\* C14: an OfferTransfer(a, newOwner) that passes its checks is signed by the
\* owner and issues a set of one address, the acknowledgment slot of a, with
\* the record {asset: a, owner: newOwner}; when the set is committed the slot
\* holds that record and every other address keeps its value.
C14_OfferWrites ==
    /\ [][ (requests' # requests /\ last'.action = "transfer" /\ Issued(last')) =>
             LET a == last'.asset
                 writes == last'.outcome.writes
             IN  /\ Present(state, getAssetAddress(a))
                 /\ last'.signer = AssetOwner(state, a)
                 /\ DOMAIN writes = {getTransferAcknAddress(a)}
                 /\ state' = state
                 /\ LET record == decode(writes[getTransferAcknAddress(a)]).value
                    IN  /\ DOMAIN record \subseteq {"asset", "owner"}
                        /\ Prop(record, "asset") = a
                        /\ Prop(record, "owner") = last'.owner ]_vars
    /\ [][ (conc' # conc /\ last'.action = "transfer" /\ Succeeded(last')) =>
             LET a == last'.asset
                 writes == last'.outcome.writes
             IN  /\ DOMAIN writes = {getTransferAcknAddress(a)}
                 /\ AcknSlot(state', a) = writes[getTransferAcknAddress(a)]
                 /\ AcknSlot(state', a) = encode([asset |-> a, owner |-> last'.owner])
                 /\ \A x \in Addresses \ {getTransferAcknAddress(a)} :
                       state'[x] = state[x] ]_vars

\* C14 witness: the owner offered the asset to somebody else.
C14_Witness ==
    /\ last.action = "transfer"
    /\ Succeeded(last)
    /\ last.owner \in Signers \ {last.signer}
    /\ Present(state, getTransferAcknAddress(last.asset))
    /\ Prop(decode(AcknSlot(state, last.asset)).value, "owner") = last.owner

\* C15: for each asset at most one of the acknowledgment slot and the
\* approval slot is non-empty: an asset is never 'offered' and
\* 'pending-approval' at once.
C15_OneTransferStage ==
    \A a \in Assets :
        ~( Present(state, getTransferAcknAddress(a))
           /\ Present(state, getTransferApproveAddress(a)) )

\* C16: the transfer-offer slot (kind '10'), which RejectTransfer reads, is
\* written by no other rule: it is empty in every reachable ledger and in no
\* set another rule issues.
C16_TransferSlotNeverWritten ==
    \A a \in Assets :
        /\ TransferSlot(state, a) = EmptyBuffer
        /\ (last.outcome.type = "ok" /\ last.action # "reject")
              => getTransferAddress(a) \notin DOMAIN last.outcome.writes
        /\ \A w \in Workers :
              (conc.pc[w] = "set" /\ conc.txn[w].action # "reject")
              => getTransferAddress(a) \notin DOMAIN conc.out[w].writes

\* C16 witness: a registered regulator asked to approve a transfer that
\* awaits approval.
C16_Witness ==
    /\ last.action = "accept"
    /\ IsRegulator(state, last.signer)
    /\ Present(state, getTransferApproveAddress(last.asset))

\* C20: a non-empty acknowledgment slot or approval slot of a implies that
\* Asset[a] is present.
C20_TransferRecordsHaveAsset ==
    \A a \in Assets :
        ( Present(state, getTransferAcknAddress(a))
          \/ Present(state, getTransferApproveAddress(a)) )
        => Present(state, getAssetAddress(a))

\* C20 witness: one asset has a transfer record and the other was never
\* created.
C20_Witness ==
    \E a, b \in Assets :
        /\ Present(state, getTransferApproveAddress(a))
        /\ Present(state, getAssetAddress(a))
        /\ ~Present(state, getAssetAddress(b))

\* The failure kind of an outcome that is not a success: the reason of an
\* InvalidTransaction; DecodeFailure for the exception decode throws on an
\* absent or empty entry.
FailureKind(outcome) ==
    IF outcome.type = "InvalidTransaction" THEN outcome.message ELSE "DecodeFailure"

\* Two evaluations agree: the same write-set (same addresses, same bytes) or
\* the same failure kind.
SameOutcome(o1, o2) ==
    IF o1.type = "ok" \/ o2.type = "ok"
    THEN /\ o1.type = o2.type
         /\ DOMAIN o1.writes = DOMAIN o2.writes
         /\ \A x \in DOMAIN o1.writes : o1.writes[x] = o2.writes[x]
    ELSE FailureKind(o1) = FailureKind(o2)

\* C12: determinism.  The outcome of a request is the outcome of an
\* independent replay of the same request on the ledger its get was answered
\* on, whichever way the replaying node's store reports the entries that
\* hold nothing.
C12_Deterministic ==
    [][ requests' # requests =>
          \A m \in MissingAs :
             SameOutcome(last'.outcome,
                         apply(last'.signer, last'.action, last'.asset, last'.owner,
                               state, m)) ]_vars

\* C12 witness: a request failed in decode on an entry reported zero-length,
\* where a node whose store leaves the entry out fails in toString.
C12_Witness ==
    /\ last.action = "reject"
    /\ last.outcome.type = "SyntaxError"
    /\ Present(state, getTransferApproveAddress(last.asset))

\* A successful offer of asset a naming b is in the history.
WasOffered(h, a, b) == \E o \in h.offers : o.asset = a /\ o.newOwner = b

\* C18: a newer offer replaces the older one.  With an offer of a to b1 live,
\* OfferTransfer(a, b2) by the owner, b2 # b1, passes its checks and its set,
\* once committed, leaves exactly {asset: a, owner: b2} in the acknowledgment
\* slot; from then on AcknowledgeTransfer(a) signed by b1 fails
\* NotDesignatedBuyer and changes nothing, and one signed by b2 succeeds.
C18_NewerOfferReplaces ==
    /\ [][ \A a \in Assets, b1, b2 \in Signers :
             ( /\ b1 # b2
               /\ WasOffered(hist, a, b1)
               /\ Present(state, getTransferAcknAddress(a))
               /\ Prop(decode(AcknSlot(state, a)).value, "owner") = b1
               /\ Present(state, getAssetAddress(a))
               /\ requests' # requests
               /\ last'.action = "transfer" /\ last'.asset = a /\ last'.owner = b2
               /\ last'.signer = AssetOwner(state, a) )
             => ( /\ Issued(last')
                  /\ set(state, last'.outcome.writes)[getTransferAcknAddress(a)]
                        = << <<"asset", a>>, <<"owner", b2>> >> ) ]_vars
    /\ [][ \A a \in Assets, b2 \in Signers :
             ( /\ conc' # conc
               /\ last'.action = "transfer" /\ last'.asset = a /\ last'.owner = b2
               /\ Succeeded(last') )
             => AcknSlot(state', a) = << <<"asset", a>>, <<"owner", b2>> >> ]_vars
    /\ [][ \A a \in Assets, b1, b2 \in Signers :
             ( /\ b1 # b2
               /\ WasOffered(hist, a, b1) /\ WasOffered(hist, a, b2)
               /\ AcknSlot(state, a) = << <<"asset", a>>, <<"owner", b2>> >>
               /\ requests' # requests
               /\ last'.action = "acknowledge" /\ last'.asset = a )
             => ( /\ last'.signer = b1
                       => (Rejected(last', NotDesignatedBuyer) /\ state' = state)
                  /\ last'.signer = b2
                       => ( /\ Issued(last')
                            /\ LET after == set(state, last'.outcome.writes)
                               IN  /\ AcknSlot(after, a) = EmptyBuffer
                                   /\ ApproveSlot(after, a) =
                                         << <<"name", a>>, <<"owner", b2>> >> ) ) ]_vars

\* C18 witness: after offers to b1 and then to b2, b1's acknowledgment was
\* refused and the slot still names b2.
C18_Witness ==
    \E b2 \in Signers \ {last.signer} :
        /\ last.action = "acknowledge"
        /\ last.outcome = NotDesignatedBuyer
        /\ WasOffered(hist, last.asset, last.signer)
        /\ WasOffered(hist, last.asset, b2)
        /\ AcknSlot(state, last.asset) = << <<"asset", last.asset>>, <<"owner", b2>> >>

\* C19: if the approval slot of a holds owner b, then b signed a successful
\* AcknowledgeTransfer(a), and every such acknowledgment came after a
\* successful OfferTransfer(a, b) signed by the identity that was
\* Asset[a].owner then.
C19_ProspectiveOwnerWasOfferedAndAcknowledged ==
    /\ \A a \in Assets :
          Present(state, getTransferApproveAddress(a)) =>
             [asset |-> a, signer |-> Prop(decode(ApproveSlot(state, a)).value, "owner")]
                \in hist.acks
    /\ \A k \in hist.acks :
          \E o \in hist.offers :
             o.asset = k.asset /\ o.newOwner = k.signer /\ o.byOwner

\* C19 witness: a buyer other than the owner is the prospective owner.
C19_Witness ==
    \E a \in Assets :
        /\ Present(state, getTransferApproveAddress(a))
        /\ Present(state, getAssetAddress(a))
        /\ Prop(decode(ApproveSlot(state, a)).value, "owner") # AssetOwner(state, a)
        /\ hist.acks # {}

\* The outcomes and the final ledger of request t1 and then request t2, each
\* handled from its get to its set, on ledger st, by a store that reports
\* the entries holding nothing as m says.
OneAfterTheOther(st, t1, t2, m) ==
    LET o1 == apply(t1.signer, t1.action, t1.asset, t1.owner, st, m)
        s1 == RunToCompletion(st, t1.signer, t1.action, t1.asset, t1.owner, m)
        o2 == apply(t2.signer, t2.action, t2.asset, t2.owner, s1, m)
        s2 == RunToCompletion(s1, t2.signer, t2.action, t2.asset, t2.owner, m)
    IN  [first |-> o1, second |-> o2, ledger |-> s2]

\* C17: two requests whose read and write address sets are disjoint, with
\* their get and set steps interleaved in any order, end with the outcomes
\* and the ledger of the two requests run one after the other, in either
\* order.
C17_DisjointRequestsCommute ==
    ( /\ \A w \in Workers : conc.pc[w] = "done"
      /\ Touched(conc.txn[1]) \cap Touched(conc.txn[2]) = {} )
    => \A m \in MissingAs :
         LET fwd == OneAfterTheOther(conc.base, conc.txn[1], conc.txn[2], m)
             bwd == OneAfterTheOther(conc.base, conc.txn[2], conc.txn[1], m)
         IN  /\ SameOutcome(conc.out[1], fwd.first)
             /\ SameOutcome(conc.out[2], fwd.second)
             /\ state = fwd.ledger
             /\ SameOutcome(conc.out[2], bwd.first)
             /\ SameOutcome(conc.out[1], bwd.second)
             /\ state = bwd.ledger

\* C17 witness: two requests on different assets both wrote, the second get
\* answered before the first set was committed.
C17_Witness ==
    /\ \A w \in Workers : conc.pc[w] = "done" /\ conc.out[w].type = "ok"
    /\ conc.overlapped
    /\ conc.txn[1].asset # conc.txn[2].asset
    /\ Touched(conc.txn[1]) \cap Touched(conc.txn[2]) = {}
    /\ state # conc.base

====
